---- MODULE Spec2Model ----
(***************************************************************************)
(* Model of src/src/App.jsx: the owned-set store (loadOwned, saveOwned,    *)
(* toggleOwned), the share-link codec (encodeOwned, getOwnedFromUrl) and   *)
(* the catalog fetcher (fetchPokemon) of the Pokedex single-page app.      *)
(*                                                                         *)
(* JavaScript values that can end up in the owned Set are records          *)
(* [t, n, s]: a number n is Num(n), a one-character string c is Str(c).    *)
(* A JavaScript Set is a duplicate-free sequence (its insertion order is   *)
(* what JSON.stringify([...owned]) writes).  Text (a share token, a        *)
(* binary string) is a sequence of one-character strings, resp. of bytes.  *)
(***************************************************************************)
EXTENDS Integers, Sequences, FiniteSets, TLC

VARIABLES
    url,        \* the page's query string: [present, raw] of the `ids` parameter
    storage,    \* localStorage slot 'pokedex-owned': [kind, items]
    owned,      \* React state `owned` (a Set, in insertion order)
    pokemon,    \* React state `pokemon` (the displayed catalog)
    loading,    \* React state `loading`
    error,      \* React state `error` (NULL or a message)
    clipboard,  \* the token of the last link written by createShareLink
    api,        \* what the remote list endpoint serves: the ids its results resolve to
    pc,         \* "boot" (page loaded, App not yet constructed), "mount" (constructed,
                \* effect not yet run), then fetchPokemon's position: "list", "batch", "idle"
    results,    \* fetchPokemon's `results` (data.results)
    batchStart, \* fetchPokemon's loop variable i
    req,        \* per entry of `results`: its detail request is "unsent", "inflight", "ok",
                \* "failed" or "abandoned" (in flight when its fetch was aborted)
    withDetails,\* fetchPokemon's `withDetails`
    abandoned,  \* detail requests of an aborted fetch that are still in flight
    fetches,    \* number of calls of fetchPokemon so far
    toggles,    \* number of calls of toggleOwned so far
    lastOp      \* the operation that produced the current state

vars == << url, storage, owned, pokemon, loading, error, clipboard, api, pc,
           results, batchStart, req, withDetails, abandoned, fetches,
           toggles, lastOp >>

-----------------------------------------------------------------------------
(* Program constants *)

\* App.jsx:28 and :40, the catalog size hard-coded in both codec loops
N == 1051
\* App.jsx:38, new Uint8Array(132)
NumBytes == 132
\* App.jsx:91
BATCH_SIZE == 20

(* Bounds of the model *)

\* ids 0..PoolLow (the first byte and the start of the second) take part in
\* the codec's input sets, next to N and N + 1
PoolLow == 9
\* items the list endpoint serves beyond one full batch
MaxExtra == 1
\* a detail request may resolve while fewer than MaxReorder earlier requests
\* of its batch are still pending
MaxReorder == 2
\* calls of fetchPokemon (mount + retries)
MaxFetches == 2
\* calls of toggleOwned
MaxToggles == 2

-----------------------------------------------------------------------------
(* JavaScript values *)

Num(n) == [t |-> "number", n |-> n, s |-> ""]
Str(c) == [t |-> "string", n |-> 0, s |-> c]

NULL == "<null>"

RECURSIVE Pow2(_)
Pow2(k) == IF k = 0 THEN 1 ELSE 2 * Pow2(k - 1)

\* (b >> k) & 1
Bit(b, k) == (b \div Pow2(k)) % 2

Range(f) == { f[i] : i \in DOMAIN f }

\* new Set(iterable): drops repeated values, keeps first-insertion order
RECURSIVE NewSet(_)
NewSet(items) ==
    IF items = << >> THEN << >>
    ELSE LET init == NewSet(SubSeq(items, 1, Len(items) - 1))
             last == items[Len(items)]
         IN  IF last \in Range(init) THEN init ELSE Append(init, last)

\* Set.prototype.has
Has(set, v) == v \in Range(set)

\* Set.prototype.delete
Delete(set, v) == SelectSeq(set, LAMBDA x : x # v)

-----------------------------------------------------------------------------
(* base64: btoa / atob (WHATWG forgiving-base64) *)

B64 == << "A","B","C","D","E","F","G","H","I","J","K","L","M","N","O","P",
          "Q","R","S","T","U","V","W","X","Y","Z","a","b","c","d","e","f",
          "g","h","i","j","k","l","m","n","o","p","q","r","s","t","u","v",
          "w","x","y","z","0","1","2","3","4","5","6","7","8","9","+","/" >>

B64Index(c) == (CHOOSE i \in 1..64 : B64[i] = c) - 1

\* String.prototype.replace(/x/g, y) on a text
ReplaceAll(text, from, to) ==
    [i \in 1..Len(text) |-> IF text[i] = from THEN to ELSE text[i]]

\* btoa(binary): 3 bytes -> 4 characters, '=' padding on a short last group
RECURSIVE btoa(_)
btoa(binary) ==
    IF Len(binary) = 0 THEN << >>
    ELSE IF Len(binary) = 1 THEN
        << B64[(binary[1] \div 4) + 1], B64[(binary[1] % 4) * 16 + 1], "=", "=" >>
    ELSE IF Len(binary) = 2 THEN
        << B64[(binary[1] \div 4) + 1],
           B64[(binary[1] % 4) * 16 + (binary[2] \div 16) + 1],
           B64[(binary[2] % 16) * 4 + 1], "=" >>
    ELSE
        << B64[(binary[1] \div 4) + 1],
           B64[(binary[1] % 4) * 16 + (binary[2] \div 16) + 1],
           B64[(binary[2] % 16) * 4 + (binary[3] \div 64) + 1],
           B64[(binary[3] % 64) + 1] >>
        \o btoa(SubSeq(binary, 4, Len(binary)))

\* the decoding loop of atob over a text of alphabet characters
RECURSIVE AtobGroups(_)
AtobGroups(text) ==
    IF Len(text) < 2 THEN << >>
    ELSE LET a == B64Index(text[1])
             b == B64Index(text[2])
         IN  IF Len(text) = 2 THEN << a * 4 + (b \div 16) >>
             ELSE LET c == B64Index(text[3])
                  IN  IF Len(text) = 3 THEN
                          << a * 4 + (b \div 16), (b % 16) * 16 + (c \div 4) >>
                      ELSE << a * 4 + (b \div 16), (b % 16) * 16 + (c \div 4),
                              (c % 4) * 64 + B64Index(text[4]) >>
                           \o AtobGroups(SubSeq(text, 5, Len(text)))

\* atob(text): [ok |-> FALSE] stands for the InvalidCharacterError it throws
atob(text) ==
    LET stripped == SelectSeq(text, LAMBDA c : c # " ")
        n        == Len(stripped)
        unpadded ==
            IF n > 0 /\ n % 4 = 0 /\ stripped[n] = "="
            THEN IF stripped[n - 1] = "=" THEN SubSeq(stripped, 1, n - 2)
                                          ELSE SubSeq(stripped, 1, n - 1)
            ELSE stripped
    IN  IF Len(unpadded) % 4 = 1 \/ \E i \in 1..Len(unpadded) : unpadded[i] \notin Range(B64)
        THEN [ok |-> FALSE, binary |-> << >>]
        ELSE [ok |-> TRUE, binary |-> AtobGroups(unpadded)]

-----------------------------------------------------------------------------
(* Share-link codec *)

\* URLSearchParams.get('ids'): a '+' of the query string reads as a space
ParamsGet(u) == [present |-> u.present, value |-> ReplaceAll(u.raw, "+", " ")]

\* bytes[i], undefined (read as 0 by &) past the end of the array
ByteAt(bytes, i) == IF i + 1 \in DOMAIN bytes THEN bytes[i + 1] ELSE 0

\* App.jsx:19-35. [isNull |-> TRUE] is the null it returns.
getOwnedFromUrl(u) ==
    LET encoded == ParamsGet(u)
    IN  IF ~encoded.present \/ encoded.value = << >>
        THEN [isNull |-> TRUE, ids |-> << >>]
        ELSE LET dec == atob(ReplaceAll(ReplaceAll(encoded.value, "-", "+"), "_", "/"))
             IN  IF ~dec.ok THEN [isNull |-> TRUE, ids |-> << >>]
                 ELSE LET bytes == dec.binary
                          hit   == { i \in 0..(N - 1) : Bit(ByteAt(bytes, i \div 8), i % 8) = 1 }
                          idx   == SelectSeq([k \in 1..N |-> k - 1], LAMBDA i : i \in hit)
                      IN  [isNull |-> FALSE,
                           ids |-> NewSet([k \in 1..Len(idx) |-> Num(idx[k] + 1)])]

\* bytes[(id - 1) >> 3] |= 1 << ((id - 1) & 7); a write past the end of a
\* typed array is dropped
SetBit(bytes, id) ==
    LET j == (id - 1) \div 8
        k == (id - 1) % 8
    IN  IF j + 1 \notin DOMAIN bytes \/ Bit(bytes[j + 1], k) = 1 THEN bytes
        ELSE [bytes EXCEPT ![j + 1] = (@ + Pow2(k)) % 256]

\* App.jsx:38-41, the bitset
RECURSIVE EncodeBytesFrom(_, _)
RECURSIVE EncodeUnguardedFrom(_, _)
EncodeBytesFrom(bytes, set) ==
    IF set = << >> THEN bytes
    ELSE LET id == set[1]
             nb == IF id.t = "number" /\ id.n >= 1 /\ id.n <= N
                   THEN SetBit(bytes, id.n) ELSE bytes
         IN  EncodeBytesFrom(nb, Tail(set))

\* EncodeBytes without the range test of line 40
EncodeUnguardedFrom(bytes, set) ==
    IF set = << >> THEN bytes
    ELSE EncodeUnguardedFrom(
             IF set[1].t = "number" THEN SetBit(bytes, set[1].n) ELSE bytes, Tail(set))

EncodeBytesUnguarded(set) == EncodeUnguardedFrom([i \in 1..NumBytes |-> 0], set)

EncodeBytes(set) == EncodeBytesFrom([i \in 1..NumBytes |-> 0], set)

\* encodeOwned without the URL-safe replacements of line 44
encodeOwnedPlain(set) == btoa(EncodeBytes(set))

\* App.jsx:37-45
encodeOwned(set) ==
    ReplaceAll(ReplaceAll(btoa(EncodeBytes(set)), "+", "-"), "/", "_")

-----------------------------------------------------------------------------
(* Owned-set store *)

\* localStorage slot: kind says what JSON.parse makes of the stored text.
\*   "missing"  getItem returns null        "empty"   the text ''
\*   "invalid"  JSON.parse throws           "scalar"  a number, boolean or object
\*   "null"     the text 'null'             "string"  a JSON string (items: its characters)
\*   "array"    a JSON array (items: its elements)
Slot(kind, items) == [kind |-> kind, items |-> items]

\* App.jsx:6-13
loadOwned(st) ==
    CASE st.kind \in {"missing", "empty"} -> << >>      \* stored is falsy
      [] st.kind = "invalid" -> << >>                    \* JSON.parse throws, caught
      [] st.kind = "scalar"  -> << >>                    \* new Set(5) throws, caught
      [] st.kind = "null"    -> << >>                    \* new Set(null)
      [] st.kind \in {"string", "array"} -> NewSet(st.items)

\* App.jsx:15-17: the value localStorage holds afterwards
saveOwned(set) == Slot("array", set)

\* InitOwned keeping what storage held next to a decoded token
InitOwnedMerged(u, st) ==
    LET fromUrl == getOwnedFromUrl(u)
        merged  == NewSet(loadOwned(st) \o fromUrl.ids)
    IN  IF ~fromUrl.isNull
        THEN [owned |-> merged, storage |-> saveOwned(merged)]
        ELSE [owned |-> loadOwned(st), storage |-> st]

\* App.jsx:52-59, the useState initializer: the pair (owned, storage) it leaves
InitOwned(u, st) ==
    LET fromUrl == getOwnedFromUrl(u)
    IN  IF ~fromUrl.isNull
        THEN [owned |-> fromUrl.ids, storage |-> saveOwned(fromUrl.ids)]
        ELSE [owned |-> loadOwned(st), storage |-> st]

\* ToggleUpdate saving the set it was given instead of the one it built
ToggleUpdateStale(prev, id) ==
    LET next == IF Has(prev, id) THEN Delete(prev, id) ELSE Append(prev, id)
    IN  [owned |-> next, storage |-> saveOwned(prev)]

\* App.jsx:63-72, the updater of toggleOwned: the pair (owned, storage) it leaves
ToggleUpdate(prev, id) ==
    LET next == IF Has(prev, id) THEN Delete(prev, id) ELSE Append(prev, id)
    IN  [owned |-> next, storage |-> saveOwned(next)]

-----------------------------------------------------------------------------
(* Inputs *)

Text(u) == [present |-> TRUE, raw |-> u]
NoParam == [present |-> FALSE, raw |-> << >>]

Nums(ns) == [i \in 1..Len(ns) |-> Num(ns[i])]

\* query strings a page load may carry
Urls ==
    { NoParam,
      Text(<< >>),                                   \* ?ids=
      Text(encodeOwned(<< >>)),                      \* a link shared with nothing owned
      Text(encodeOwned(Nums(<< 2, 3 >>))),
      Text(encodeOwned(Nums(<< 1, 2, 3, 4, 5, 6, 7, 8, 1051 >>))),
      Text(<< "B", "g" >>),                          \* the {2,3} link cut after 2 characters
      Text(<< "B", "g", "A", "A", "A" >>),           \* cut after 5 characters
      Text(<< "B", "*", "A", "A" >>) }               \* an illegal character

\* what the storage slot may hold when the page loads
Stores ==
    { Slot("missing", << >>), Slot("empty", << >>), Slot("invalid", << >>),
      Slot("scalar", << >>), Slot("null", << >>),
      Slot("string", << Str("a"), Str("b") >>),
      Slot("array", << >>),
      Slot("array", Nums(<< 1 >>)),
      Slot("array", Nums(<< 1, 4, 9 >>)),
      Slot("array", Nums(<< 4, 4 >>)),
      Slot("array", Nums(<< 2000 >>)) }

\* what the list endpoint serves (the id each result's detail record carries)
Apis == { << >>, << 2, 1 >>, << 1051, 10001 >> }

LongApi == [i \in 1..(BATCH_SIZE + MaxExtra) |-> i]

\* err.message: fetch rejects, or the list response is not ok (App.jsx:87)
ListMessages == { "Failed to fetch", "API returned 500" }

\* err.message: fetch rejects, or the detail body is not the JSON expected
DetailMessages == { "Failed to fetch", "Unexpected token in JSON" }

-----------------------------------------------------------------------------
(* Catalog fetcher *)

Min(a, b) == IF a < b THEN a ELSE b

\* BatchOf slicing to the end of the list
BatchOfRest(res, i) == (i + 1)..Len(res)

\* App.jsx:94, results.slice(i, i + BATCH_SIZE): the (1-based) indices it covers
BatchOf(res, i) == (i + 1)..Min(i + BATCH_SIZE, Len(res))

\* App.jsx:99-104, the record built from a detail response
Item(ref) == [id |-> ref]

InFlight == { i \in DOMAIN req : req[i] = "inflight" }

\* App.jsx:83-86: fetchPokemon up to its first await
FetchPokemon ==
    /\ fetches < MaxFetches
    /\ loading' = TRUE
    /\ error' = NULL
    /\ pc' = "list"
    /\ results' = << >>
    /\ batchStart' = 0
    /\ req' = << >>
    /\ withDetails' = << >>
    /\ fetches' = fetches + 1
    /\ UNCHANGED << url, storage, owned, pokemon, clipboard, api, abandoned, toggles >>

\* FetchFailed publishing what was fetched so far
FetchFailedPartial(msg) ==
    /\ error' = msg
    /\ loading' = FALSE
    /\ pc' = "idle"
    /\ pokemon' = withDetails

\* FetchFailed without the finally block
FetchFailedStillLoading(msg) ==
    /\ error' = msg
    /\ loading' = loading
    /\ pc' = "idle"
    /\ UNCHANGED pokemon

\* App.jsx:110-114: catch and finally
FetchFailed(msg) ==
    /\ error' = msg
    /\ loading' = FALSE
    /\ pc' = "idle"
    /\ UNCHANGED pokemon

\* App.jsx:109, 112-114: setPokemon(withDetails) and finally
FetchSucceeded(items) ==
    /\ pokemon' = items
    /\ loading' = FALSE
    /\ pc' = "idle"
    /\ UNCHANGED error

\* App.jsx:93-95: enter the loop body at index i and issue the batch's requests
IssueBatch(res, i, done) ==
    /\ batchStart' = i
    /\ req' = [k \in 1..Len(res) |->
                 IF k \in BatchOf(res, i) THEN "inflight"
                 ELSE IF k <= i THEN "ok" ELSE "unsent"]
    /\ withDetails' = done
    /\ pc' = "batch"
    /\ UNCHANGED << pokemon, loading, error >>

\* App.jsx:52-59: the App component is constructed
AppInit ==
    /\ pc = "boot"
    /\ LET r == InitOwned(url, storage)
       IN  owned' = r.owned /\ storage' = r.storage
    /\ pc' = "mount"
    /\ lastOp' = "init"
    /\ UNCHANGED << url, pokemon, loading, error, clipboard, api, results,
                    batchStart, req, withDetails, abandoned, fetches, toggles >>

\* App.jsx:117-119
MountEffect ==
    /\ pc = "mount"
    /\ FetchPokemon
    /\ lastOp' = "mount"

\* App.jsx:139, the Retry button of the error view
Retry ==
    /\ pc # "boot"
    /\ error # NULL
    /\ FetchPokemon
    /\ lastOp' = "retry"

\* App.jsx:86-87: the list request fails (fetch rejects, or a non-ok status)
ListFail(msg) ==
    /\ pc = "list"
    /\ FetchFailed(msg)
    /\ lastOp' = "listFail"
    /\ UNCHANGED << url, storage, owned, clipboard, api, results, batchStart,
                    req, withDetails, abandoned, fetches, toggles >>

\* App.jsx:86-95 (and 109 when the list is empty): the list response arrives
ListOk ==
    /\ pc = "list"
    /\ results' = api
    /\ IF Len(api) = 0
       THEN FetchSucceeded(<< >>) /\ UNCHANGED << batchStart, req, withDetails >>
       ELSE IssueBatch(api, 0, << >>)
    /\ lastOp' = "listOk"
    /\ UNCHANGED << url, storage, owned, clipboard, api, abandoned, fetches, toggles >>

\* a pending request the transport may settle next
MaySettle(k) ==
    /\ pc = "batch"
    /\ k \in InFlight
    /\ Cardinality({ j \in InFlight : j < k }) < MaxReorder

\* App.jsx:97-109: a detail response arrives; when it is the batch's last,
\* Promise.all fulfils and the loop goes on
DetailOk(k) ==
    /\ MaySettle(k)
    /\ IF InFlight = {k}
       THEN LET batch == BatchOf(results, batchStart)
                batchResults == [j \in 1..Cardinality(batch) |-> Item(results[batchStart + j])]
                done  == withDetails \o batchResults
                i     == batchStart + BATCH_SIZE
            IN  IF i < Len(results)
                THEN IssueBatch(results, i, done)
                ELSE /\ FetchSucceeded(done)
                     /\ req' = [req EXCEPT ![k] = "ok"]
                     /\ withDetails' = done
                     /\ UNCHANGED batchStart
       ELSE /\ req' = [req EXCEPT ![k] = "ok"]
            /\ UNCHANGED << pokemon, loading, error, pc, batchStart, withDetails >>
    /\ lastOp' = "detailOk"
    /\ UNCHANGED << url, storage, owned, clipboard, api, results, abandoned,
                    fetches, toggles >>

\* App.jsx:95-98, 110-114: a detail request fails; Promise.all rejects at once
\* and the batch's other requests are left in flight
DetailFail(k, msg) ==
    /\ MaySettle(k)
    /\ FetchFailed(msg)
    /\ abandoned' = abandoned + Cardinality(InFlight \ {k})
    /\ req' = [i \in DOMAIN req |->
                 IF i = k THEN "failed"
                 ELSE IF req[i] = "inflight" THEN "abandoned" ELSE req[i]]
    /\ lastOp' = "detailFail"
    /\ UNCHANGED << url, storage, owned, clipboard, api, results, batchStart,
                    withDetails, fetches, toggles >>

\* a request left over from an aborted fetch settles; nobody awaits it
AbandonedSettle ==
    /\ abandoned > 0
    /\ abandoned' = abandoned - 1
    /\ lastOp' = "abandonedSettle"
    /\ UNCHANGED << url, storage, owned, pokemon, loading, error, clipboard, api,
                    pc, results, batchStart, req, withDetails, fetches, toggles >>

\* App.jsx:183-195 with 62-73: a click or Enter/Space on a displayed card
\* (with a blank search every item of the catalog is displayed)
ToggleOwned(p) ==
    /\ pc # "boot"
    /\ error = NULL
    /\ ~loading
    /\ p \in Range(pokemon)
    /\ toggles < MaxToggles
    /\ LET r == ToggleUpdate(owned, Num(p.id))
       IN  owned' = r.owned /\ storage' = r.storage
    /\ toggles' = toggles + 1
    /\ lastOp' = "toggle"
    /\ UNCHANGED << url, pokemon, loading, error, clipboard, api, pc, results,
                    batchStart, req, withDetails, abandoned, fetches >>

\* App.jsx:76-77: the Share button writes the link to the clipboard (the
\* token is what the model keeps of it)
CreateShareLink ==
    /\ pc # "boot"
    /\ error = NULL
    /\ clipboard' = Text(encodeOwned(owned))
    /\ lastOp' = "share"
    /\ UNCHANGED << url, storage, owned, pokemon, loading, error, api, pc,
                    results, batchStart, req, withDetails, abandoned, fetches, toggles >>

\* the link just copied is opened: a page load with ?ids=<token> over the
\* same localStorage (App.jsx:48-51 give the other state its first values)
OpenShareLink ==
    /\ clipboard.present
    /\ lastOp = "share"
    /\ url' = clipboard
    /\ pc' = "boot"
    /\ owned' = << >>
    /\ pokemon' = << >>
    /\ loading' = TRUE
    /\ error' = NULL
    /\ lastOp' = "open"
    /\ UNCHANGED << storage, clipboard, api, results, batchStart, req,
                    withDetails, abandoned, fetches, toggles >>

-----------------------------------------------------------------------------
(* Specifications *)

\* a page load: App.jsx:48-51 give pokemon, loading and error their first values
PageLoad(u, st, a) ==
    /\ url = u
    /\ storage = st
    /\ api = a
    /\ owned = << >>
    /\ pokemon = << >>
    /\ loading = TRUE
    /\ error = NULL
    /\ clipboard = NoParam
    /\ pc = "boot"
    /\ results = << >>
    /\ batchStart = 0
    /\ req = << >>
    /\ withDetails = << >>
    /\ abandoned = 0
    /\ fetches = 0
    /\ toggles = 0
    /\ lastOp = "load"

Init == \E u \in Urls, st \in Stores, a \in Apis : PageLoad(u, st, a)

FetcherNext ==
    \/ MountEffect
    \/ Retry
    \/ \E msg \in ListMessages : ListFail(msg)
    \/ ListOk
    \/ \E k \in DOMAIN req : DetailOk(k)
    \/ \E k \in DOMAIN req, msg \in DetailMessages : DetailFail(k, msg)
    \/ AbandonedSettle

Next ==
    \/ AppInit
    \/ FetcherNext
    \/ \E p \in Range(pokemon) : ToggleOwned(p)

Spec == Init /\ [][Next]_vars

\* the fetcher on a catalog longer than one batch
InitFetch == PageLoad(NoParam, Slot("array", Nums(<< 1, 4, 9 >>)), LongApi)

NextFetch == AppInit \/ FetcherNext

SpecFetch == InitFetch /\ [][NextFetch]_vars

\* the codec on owned sets drawn from the ids around the bitset's edges
Pool == (0..PoolLow) \cup { N, N + 1 }

RECURSIVE SeqOf(_)
SeqOf(S) == IF S = {} THEN << >>
            ELSE LET m == CHOOSE x \in S : \A y \in S : x <= y
                 IN  << Num(m) >> \o SeqOf(S \ {m})

InitCodec ==
    /\ \E S \in SUBSET Pool : owned = SeqOf(S)
    /\ storage = saveOwned(owned)
    /\ url = NoParam
    /\ api = << >>
    /\ pokemon = << >>
    /\ loading = FALSE
    /\ error = NULL
    /\ clipboard = NoParam
    /\ pc = "idle"
    /\ results = << >>
    /\ batchStart = 0
    /\ req = << >>
    /\ withDetails = << >>
    /\ abandoned = 0
    /\ fetches = 1
    /\ toggles = 0
    /\ lastOp = "listOk"

NextCodec == CreateShareLink \/ OpenShareLink \/ AppInit

SpecCodec == InitCodec /\ [][NextCodec]_vars

-----------------------------------------------------------------------------
(* Properties *)

InRange(e) == e.t = "number" /\ e.n \in 1..N

\* the catalog the list endpoint's results stand for, in their order
FullCatalog(res) == [i \in 1..Len(res) |-> Item(res[i])]

\* the alphabet encodeOwned writes
UrlSafe == (Range(B64) \ { "+", "/" }) \cup { "-", "_" }

\* a token that is the URL-safe base64 text of a NumBytes-byte buffer
WellFormed(u) ==
    /\ u.present
    /\ Len(u.raw) = 4 * (NumBytes \div 3)
    /\ \A i \in 1..Len(u.raw) : u.raw[i] \in UrlSafe

\* the stored text parses to a list of numbers (read generously: any list of
\* numbers counts as a list of owned ids)
IsOwnedList(st) ==
    st.kind = "array" /\ \A i \in 1..Len(st.items) : st.items[i].t = "number"

\* C1: the token made from an owned set of ids in [1, N] decodes, as
\* getOwnedFromUrl reads it from the link, to a set equal to that owned set.
C1_RoundTrip ==
    (lastOp = "share" /\ \A e \in Range(owned) : InRange(e))
        => LET d == getOwnedFromUrl(clipboard)
           IN  ~d.isNull /\ Range(d.ids) = Range(owned)

C1_Witness ==
    /\ lastOp = "share"
    /\ Range(owned) = { Num(i) : i \in 4..8 } \cup { Num(N) }
    /\ "-" \in Range(clipboard.raw)
    /\ Range(getOwnedFromUrl(clipboard).ids) = Range(owned)

\* C2: when the page's ids token decodes to a set T, construction leaves the
\* owned set equal to T and storage holding the list of T, whatever storage
\* held when the page loaded.
C2_TokenOverridesStorage ==
    [][ (pc = "boot" /\ ~getOwnedFromUrl(url).isNull)
          => /\ owned' = getOwnedFromUrl(url).ids
             /\ storage' = Slot("array", getOwnedFromUrl(url).ids) ]_vars

C2_Witness ==
    /\ lastOp = "init"
    /\ WellFormed(url)
    /\ Range(owned) = { Num(2), Num(3) }
    /\ storage = Slot("array", << Num(2), Num(3) >>)

\* C3 (as claimed): for every ids token that is not the URL-safe base64 text
\* of a ceil(N/8)-byte bitset, decoding yields null, construction leaves the
\* owned set equal to load() of storage, and storage is unchanged.
C3_MalformedTokenFallsBack ==
    [][ (pc = "boot" /\ url.present /\ ~WellFormed(url))
          => /\ getOwnedFromUrl(url).isNull
             /\ owned' = loadOwned(storage)
             /\ storage' = storage ]_vars

\* C4: once a toggle has run, storage holds exactly the list of the current
\* owned set.
C4_StorageMirrorsOwned ==
    toggles > 0 => storage = Slot("array", owned)

C4_Witness ==
    /\ lastOp = "toggle"
    /\ toggles = 2
    /\ Len(owned) = 2
    /\ storage = Slot("array", owned)

\* C5 (as claimed): once constructed, the owned set holds only integers in
\* [1, N] and has at most N members.
C5_OwnedInRange ==
    pc # "boot" => /\ \A e \in Range(owned) : InRange(e)
                   /\ Len(owned) <= N

\* C6 (as claimed): when no token is decoded and the storage slot is missing,
\* corrupt or does not parse to a list of owned ids, the owned set load()
\* gives is empty.
C6_LoadFailsSoft ==
    (lastOp = "init" /\ getOwnedFromUrl(url).isNull /\ ~IsOwnedList(storage))
        => owned = << >>

\* C7: the buffer encode builds has ceil(N/8) bytes, bit (id-1) mod 8 of byte
\* (id-1) div 8 is set exactly for the owned ids in [1, N], and the link
\* decodes to the owned set intersected with [1, N].
C7_Bitset ==
    lastOp = "share"
        => LET bytes == EncodeBytes(owned)
           IN  /\ Len(bytes) = (N + 7) \div 8
               /\ \A j \in 0..(Len(bytes) - 1), k \in 0..7 :
                      (Bit(bytes[j + 1], k) = 1)
                          <=> (8 * j + k + 1 <= N /\ Num(8 * j + k + 1) \in Range(owned))
               /\ Range(getOwnedFromUrl(clipboard).ids)
                      = { e \in Range(owned) : InRange(e) }

C7_Witness ==
    /\ lastOp = "share"
    /\ { Num(0), Num(1), Num(N), Num(N + 1) } \subseteq Range(owned)
    /\ Range(getOwnedFromUrl(clipboard).ids) = Range(owned) \ { Num(0), Num(N + 1) }

\* C8: the catalog is replaced only by the complete catalog, after every
\* detail request succeeded; a failed list or detail request leaves the view
\* failed (an error message, loading cleared) and the catalog as it was.
C8_AllOrNothing ==
    /\ pokemon \in { << >>, FullCatalog(api) }
    /\ pokemon # << >> => /\ error = NULL
                          /\ \A i \in DOMAIN req : req[i] = "ok"
    /\ lastOp \in { "listFail", "detailFail" }
           => error \in ListMessages \cup DetailMessages /\ ~loading /\ pc = "idle" /\ pokemon = << >>

C8_Witness ==
    /\ lastOp = "detailFail"
    /\ batchStart = BATCH_SIZE
    /\ Len(withDetails) = BATCH_SIZE
    /\ error \in DetailMessages
    /\ pokemon = << >>

\* C9: a fetch in progress shows loading and no error; it ends with loading
\* cleared, either failed or ready; once failed the view stays failed and no
\* request is issued until Retry, which clears the error and sets loading.
C9_FetcherStateMachine ==
    [][ /\ pc \in { "list", "batch" } => (loading /\ error = NULL)
        /\ (pc \in { "list", "batch" } /\ pc' \notin { "list", "batch" })
              => /\ pc' = "idle"
                 /\ ~loading'
                 /\ error' # NULL \/ pokemon' = FullCatalog(results')
        /\ error # NULL => (~loading /\ pc = "idle")
        /\ (error # NULL /\ lastOp' # "retry")
              => /\ error' = error
                 /\ ~loading'
                 /\ pc' = "idle"
                 /\ req' = req
                 /\ fetches' = fetches
        /\ (error # NULL /\ lastOp' = "retry")
              => (error' = NULL /\ loading' /\ pc' = "list" /\ fetches' = fetches + 1)
      ]_vars

C9_Witness ==
    /\ lastOp = "retry"
    /\ fetches = 2
    /\ loading
    /\ error = NULL
    /\ pc = "list"

\* C10: the requests in flight for a fetch all belong to one batch, every
\* request of an earlier batch has succeeded, at most BATCH_SIZE are in
\* flight, and the catalog lists the items in the order of the list results.
C10_Batched ==
    /\ Cardinality(InFlight) <= BATCH_SIZE
    /\ \A j \in InFlight : \A i \in DOMAIN req :
           ((i - 1) \div BATCH_SIZE < (j - 1) \div BATCH_SIZE) => req[i] = "ok"
    /\ pokemon # << >> => pokemon = FullCatalog(results)

C10_Witness ==
    /\ pc = "batch"
    /\ batchStart = BATCH_SIZE
    /\ InFlight = { BATCH_SIZE + 1 }
    /\ \A i \in 1..BATCH_SIZE : req[i] = "ok"

====
